---- MODULE Spec2Model ----
(***************************************************************************)
(* Real-time correlation detection: the collector's poll loop              *)
(* (data_processing.main), the Finnhub client (data_collection), the       *)
(* SQLite sample store (data_storage) and the statistics pipeline          *)
(* (calculate_returns, compute_rolling_correlation, detect_anomalies).     *)
(*                                                                         *)
(* The specifications share the variables:                                 *)
(*   Spec / LiveSpec   the poll loop of main() (LiveSpec adds fairness)    *)
(*   StoreSpec         store_data / load_data on the prices table          *)
(*   PipelineSpec      calculate_returns / compute_rolling_correlation     *)
(*   DetectSpec        detect_anomalies                                    *)
(***************************************************************************)
EXTENDS Integers, Sequences, FiniteSets, TLC

VARIABLES
    \* ---- poll loop (data_processing.main) ----
    pc,          \* position of main(): quote1, quote2, add, store, check, sleep, done, crashed
    data,        \* the in-memory DataFrame, as the number of rows of each shape
    store,       \* the rows this run inserted into the prices table, by shape
    quote1,      \* dict returned by client.get_quote(symbol1)
    quote2,      \* dict returned by client.get_quote(symbol2)
    symbol_data, \* {symbol1: price1, symbol2: price2} of the current cycle
    faults,      \* number of failing inputs drawn so far
    err,         \* what the except clause caught in the current cycle
    startRows,   \* number of stored rows when the current cycle began
    reported,    \* the current cycle printed an anomaly verdict
    verdicts,    \* number of verdicts printed by this run
    \* ---- sample store (data_storage) ----
    table,       \* rows of the prices table in physical (insertion) order
    limit,       \* argument of the last load_data call
    loaded,      \* what the last load_data call produced
    \* ---- pipeline (calculate_returns, compute_rolling_correlation) ----
    df,          \* the two price columns of the DataFrame
    window,      \* rolling window
    returns,     \* result of the last calculate_returns call
    rolling,     \* result of the last compute_rolling_correlation call
    \* ---- detector (detect_anomalies) ----
    rolling_corr, \* the rolling-correlation series handed to detect_anomalies
    threshold,    \* z-score threshold
    anomaly_flag  \* what detect_anomalies produced

pollVars   == <<pc, data, store, quote1, quote2, symbol_data, faults, err,
                startRows, reported, verdicts>>
storeVars  == <<table, limit, loaded>>
pipeVars   == <<df, window, returns, rolling>>
detectVars == <<rolling_corr, threshold, anomaly_flag>>
vars       == <<pollVars, storeVars, pipeVars, detectVars>>

None  == -1          \* Python None / SQL NULL (prices are never negative here)
Unset == "unset"     \* nothing computed yet

(***************************************************************************)
(* Bounds                                                                  *)
(***************************************************************************)
MaxFaults == 2       \* failing inputs (bad responses, store errors) per run

(***************************************************************************)
(* Program constants                                                       *)
(***************************************************************************)
MinSamples == 100    \* `if len(data) >= 100`

(***************************************************************************)
(* FinnhubClient                                                           *)
(***************************************************************************)
Price == 1           \* a current price carried by a well-formed quote

\* What session.get can come back with.
Responses == {"timeout", "http_error", "not_json", "json_no_c", "json_c"}

\* FinnhubClient._get: the parsed JSON dict, or an exception.
RequestException == "RequestException"
PlainException   == "Exception"
OperationalError == "sqlite3.OperationalError"
NoException      == "no exception"
IsException(x)   == x.exc # NoException

EmptyDict == [exc |-> NoException, has_c |-> FALSE, c |-> None]
Raised(e) == [exc |-> e, has_c |-> FALSE, c |-> None]

_get(response) ==
    IF response = "timeout" THEN Raised(RequestException)        \* session.get raises
    ELSE IF response = "http_error" THEN Raised(PlainException)  \* not response.ok
    ELSE IF response = "not_json" THEN Raised(PlainException)    \* unexpected content type
    ELSE IF response = "json_c" THEN [exc |-> NoException, has_c |-> TRUE, c |-> Price]
    ELSE EmptyDict                                               \* JSON without "c"

get_quote(response) == _get(response)

\* dict.get("c"): the value, or None when the key is absent.
DictGetC(quote) == IF quote.has_c THEN quote.c ELSE None

(***************************************************************************)
(* DataFrame / table rows, kept by shape: which of the two prices is set   *)
(***************************************************************************)
Shapes == BOOLEAN \X BOOLEAN
ShapeOf(sd) == <<sd.AAPL # None, sd.MSFT # None>>
Full == <<TRUE, TRUE>>

Empty == [s \in Shapes |-> 0]
Rows(t) == t[<<TRUE, TRUE>>] + t[<<TRUE, FALSE>>] + t[<<FALSE, TRUE>>] + t[<<FALSE, FALSE>>]
Partial(t) == Rows(t) - t[Full]

\* add_new_data: df._append(new_row, ignore_index=True)
add_new_data(d, sd) == [d EXCEPT ![ShapeOf(sd)] = @ + 1]

\* store_data: INSERT INTO prices ... VALUES (ts, sd.get("AAPL"), sd.get("MSFT"))
store_data(t, sd) == [t EXCEPT ![ShapeOf(sd)] = @ + 1]

(***************************************************************************)
(* main(): the try/except around the loop body                             *)
(***************************************************************************)
\* `except Exception as e` catches every exception class raised in the body.
CaughtOnlyRequestErrors(e) == e = RequestException
Caught(e) == e \in {RequestException, PlainException, OperationalError}

\* After the handler printed the error, control falls to time.sleep(1).
AfterExceptBreak == "done"
AfterExcept == "sleep"

Raise(e) == IF Caught(e) THEN AfterExcept ELSE "crashed"

\* `if len(data) >= 100`
EnoughSamplesStrict(d) == Rows(d) > MinSamples
EnoughSamples(d) == Rows(d) >= MinSamples

\* `break` after the verdict was printed.
AfterVerdictContinue == "sleep"
AfterVerdict == "done"

FaultAllowed(isFault) == isFault => faults < MaxFaults
Bump(isFault) == IF isFault THEN faults + 1 ELSE faults

InitPoll ==
    /\ pc = "quote1"
    /\ data = Empty
    /\ store = Empty
    /\ quote1 = EmptyDict
    /\ quote2 = EmptyDict
    /\ symbol_data = [AAPL |-> None, MSFT |-> None]
    /\ faults = 0
    /\ err = "none"
    /\ startRows = 0
    /\ reported = FALSE
    /\ verdicts = 0

\* quote1 = client.get_quote(symbol1)
GetQuote1 ==
    /\ pc = "quote1"
    /\ \E response \in Responses :
         /\ FaultAllowed(response # "json_c")
         /\ faults' = Bump(response # "json_c")
         /\ LET q == get_quote(response) IN
              IF IsException(q)
              THEN /\ pc' = Raise(q.exc)
                   /\ err' = "fetch"
                   /\ quote1' = quote1
              ELSE /\ pc' = "quote2"
                   /\ err' = err
                   /\ quote1' = q
    /\ UNCHANGED <<data, store, quote2, symbol_data, startRows, reported, verdicts>>

\* quote2 = client.get_quote(symbol2)
GetQuote2 ==
    /\ pc = "quote2"
    /\ \E response \in Responses :
         /\ FaultAllowed(response # "json_c")
         /\ faults' = Bump(response # "json_c")
         /\ LET q == get_quote(response) IN
              IF IsException(q)
              THEN /\ pc' = Raise(q.exc)
                   /\ err' = "fetch"
                   /\ quote2' = quote2
              ELSE /\ pc' = "add"
                   /\ err' = err
                   /\ quote2' = q
    /\ UNCHANGED <<data, store, quote1, symbol_data, startRows, reported, verdicts>>

\* price1 = quote1.get("c"); price2 = quote2.get("c");
\* symbol_data = {...}; data = add_new_data(data, current_time, symbol_data)
AddNewData ==
    /\ pc = "add"
    /\ LET sd == [AAPL |-> DictGetC(quote1), MSFT |-> DictGetC(quote2)] IN
         /\ symbol_data' = sd
         /\ data' = add_new_data(data, sd)
    /\ pc' = "store"
    /\ UNCHANGED <<store, quote1, quote2, faults, err, startRows, reported, verdicts>>

\* store_data(current_time, symbol_data): the INSERT commits, or sqlite3 raises.
StoreData ==
    /\ pc = "store"
    /\ \E ok \in BOOLEAN :
         /\ FaultAllowed(~ok)
         /\ faults' = Bump(~ok)
         /\ IF ok
            THEN /\ store' = store_data(store, symbol_data)
                 /\ pc' = "check"
                 /\ err' = err
            ELSE /\ store' = store
                 /\ pc' = Raise(OperationalError)
                 /\ err' = "store"
    /\ UNCHANGED <<data, quote1, quote2, symbol_data, startRows, reported, verdicts>>

\* if len(data) >= 100: compute, detect, print the verdict, break
\* else: print "Collecting data..."
\* (with 100 rows or more the rolling series is not empty, so neither
\* detect_anomalies nor the print of rolling_corr.iloc[-1] raises here)
Evaluate ==
    /\ pc = "check"
    /\ IF EnoughSamples(data)
       THEN /\ reported' = TRUE
            /\ verdicts' = verdicts + 1
            /\ pc' = AfterVerdict
       ELSE /\ UNCHANGED <<reported, verdicts>>
            /\ pc' = "sleep"
    /\ UNCHANGED <<data, store, quote1, quote2, symbol_data, faults, err, startRows>>

\* time.sleep(1), then the next iteration of `while True`
Sleep ==
    /\ pc = "sleep"
    /\ pc' = "quote1"
    /\ err' = "none"
    /\ reported' = FALSE
    /\ startRows' = Rows(store)
    /\ UNCHANGED <<data, store, quote1, quote2, symbol_data, faults, verdicts>>

(***************************************************************************)
(* data_storage: the prices table, store_data and load_data                *)
(*                                                                         *)
(* A timestamp is a naive datetime.  All modelled instants lie in the same *)
(* minute, so only the second and microsecond fields vary; the            *)
(* "YYYY-MM-DDTHH:MM:" prefix of the ISO text is the same for every row    *)
(* and is left out of the text.  Text is a sequence of character codes.    *)
(***************************************************************************)
MaxRows == 3         \* rows inserted into the table
Seconds == {5, 10}
Micros  == {0, 500000}
Datetimes == [second : Seconds, microsecond : Micros]
SymbolDatas == [AAPL : {1, 2}, MSFT : {1}]

Dot == 46            \* ord('.')
Zero == 48           \* ord('0')

Min(a, b) == IF a < b THEN a ELSE b

RECURSIVE Pow10(_)
Pow10(k) == IF k = 0 THEN 1 ELSE 10 * Pow10(k - 1)

\* "%02d" / "%06d": n as w zero-padded decimal digits
Digits(n, w) == [i \in 1..w |-> Zero + ((n \div Pow10(w - i)) % 10)]

\* datetime.isoformat(): the fraction is printed only when microsecond # 0
isoformat(dt) ==
    Digits(dt.second, 2) \o
    (IF dt.microsecond = 0 THEN <<>> ELSE <<Dot>> \o Digits(dt.microsecond, 6))

\* SQLite compares TEXT with memcmp, a proper prefix sorting first
TextLess(a, b) ==
    \E k \in 1..(Min(Len(a), Len(b)) + 1) :
        /\ \A j \in 1..(k - 1) : a[j] = b[j]
        /\ \/ k > Len(a) /\ k <= Len(b)
           \/ k <= Len(a) /\ k <= Len(b) /\ a[k] < b[k]

DtLess(a, b) ==
    \/ a.second < b.second
    \/ a.second = b.second /\ a.microsecond < b.microsecond

RECURSIVE Number(_)
Number(digits) ==
    IF digits = <<>> THEN 0
    ELSE 10 * Number(SubSeq(digits, 1, Len(digits) - 1)) + (digits[Len(digits)] - Zero)

HasFraction(text) == Len(text) > 2

\* parsing one ISO string back into a datetime
ParseIso(text) ==
    [second |-> Number(SubSeq(text, 1, 2)),
     microsecond |-> IF HasFraction(text) THEN Number(SubSeq(text, 4, 9)) ELSE 0]

\* store_data on the table itself: one INSERT of (timestamp.isoformat(), AAPL, MSFT)
insert_row(t, timestamp, sd) ==
    Append(t, [timestamp |-> isoformat(timestamp), AAPL |-> sd.AAPL, MSFT |-> sd.MSFT])

Perms(n) == {p \in [1..n -> 1..n] : \A i, j \in 1..n : i # j => p[i] # p[j]}

\* SELECT * FROM prices ORDER BY timestamp DESC LIMIT n: every order of the
\* rows that is descending by text (rows with equal text come in any order),
\* cut to the first n
SelectDescLimit(t, n) ==
    {[i \in 1..Min(n, Len(t)) |-> t[p[i]]] :
        p \in {q \in Perms(Len(t)) :
                 \A i, j \in 1..Len(t) :
                    i < j => ~TextLess(t[q[i]].timestamp, t[q[j]].timestamp)}}

\* pd.to_datetime on the timestamp column.  Since pandas 2.0 the format is
\* inferred from the first element and every other element must match it
\* (strict); older versions parse each element on its own.
ValueError == "ValueError"
to_datetime_fails(rows, strict) ==
    strict /\ \E i \in 1..Len(rows) :
                 HasFraction(rows[i].timestamp) # HasFraction(rows[1].timestamp)
to_datetime(rows) ==
    [i \in 1..Len(rows) |-> [rows[i] EXCEPT !.timestamp = ParseIso(@)]]

\* df.sort_values("timestamp"): every ascending order of the rows
sort_values(rows) ==
    {[i \in 1..Len(rows) |-> rows[p[i]]] :
        p \in {q \in Perms(Len(rows)) :
                 \A i, j \in 1..Len(rows) :
                    i < j => ~DtLess(rows[q[j]].timestamp, rows[q[i]].timestamp)}}

\* load_data(limit): the possible outcomes
load_data(t, n, strict) ==
    UNION {IF q = <<>> THEN {[status |-> "returned", rows |-> q]}
           ELSE IF to_datetime_fails(q, strict)
                THEN {[status |-> ValueError, rows |-> <<>>]}
                ELSE {[status |-> "returned", rows |-> r] : r \in sort_values(to_datetime(q))}
           : q \in SelectDescLimit(t, n)}

NotLoaded == [status |-> "unset", rows |-> <<>>]

InitStore ==
    /\ table = <<>>
    /\ limit = 0
    /\ loaded = NotLoaded

\* store_data(timestamp, symbol_data)
StoreRow ==
    /\ Len(table) < MaxRows
    /\ \E timestamp \in Datetimes, sd \in SymbolDatas :
         table' = insert_row(table, timestamp, sd)
    /\ loaded' = NotLoaded
    /\ UNCHANGED limit

\* load_data(limit), on either pandas generation
LoadData ==
    /\ \E n \in 0..MaxRows, strict \in BOOLEAN :
         /\ limit' = n
         /\ loaded' \in load_data(table, n, strict)
    /\ UNCHANGED table

(***************************************************************************)
(* data_processing: calculate_returns and compute_rolling_correlation      *)
(*                                                                         *)
(* A float is kept exactly: NaN, +/-infinity, or the fraction n/d (d > 0). *)
(* A correlation is kept as cov / sqrt(vx * vy) by its three integer parts.*)
(***************************************************************************)
MaxLen    == 4       \* rows of the DataFrame
Prices    == {0, 1, 2}   \* the prices a column may hold (0 included)
MaxWindow == 3       \* rolling windows are 2..MaxWindow

NaN       == [k |-> "nan", n |-> 0, d |-> 1]
Inf(sign) == [k |-> "inf", n |-> sign, d |-> 1]
Fin(n, d) == [k |-> "fin", n |-> n, d |-> d]
IsFinite(x) == x.k = "fin"

Sign(n) == IF n > 0 THEN 1 ELSE IF n < 0 THEN -1 ELSE 0

\* IEEE cur / prev - 1: x/0 is an infinity, 0/0 is NaN, nothing raises
DivideMinusOne(cur, prev) ==
    IF prev = 0
    THEN (IF cur = 0 THEN NaN ELSE Inf(Sign(cur)))
    ELSE Fin(cur - prev, prev)

\* Series.pct_change(): NaN first, then price[i] / price[i-1] - 1
pct_change(prices) ==
    [i \in 1..Len(prices) |-> IF i = 1 THEN NaN ELSE DivideMinusOne(prices[i], prices[i - 1])]

\* calculate_returns(df, symbol): df[symbol].pct_change()
calculate_returns(frame, symbol) == pct_change(frame[symbol])

\* Rolling._prep_values: infinities become NaN before any window is evaluated
PrepValues(x) == [i \in 1..Len(x) |-> IF IsFinite(x[i]) THEN x[i] ELSE NaN]

\* rolling(window=w): min_periods defaults to the window
MinPeriodsShort(w) == w - 1
MinPeriods(w) == w

RECURSIVE SumOver(_, _)
SumOver(f, S) ==
    IF S = {} THEN 0
    ELSE LET j == CHOOSE j \in S : TRUE IN f[j] + SumOver(f, S \ {j})

RECURSIVE ProdOver(_, _)
ProdOver(f, S) ==
    IF S = {} THEN 1
    ELSE LET j == CHOOSE j \in S : TRUE IN f[j] * ProdOver(f, S \ {j})

Undefined == [k |-> "nan", cov |-> 0, vx |-> 0, vy |-> 0]
Corr(cov, vx, vy) == [k |-> "corr", cov |-> cov, vx |-> vx, vy |-> vy]
IsDefined(c) == c.k = "corr"

\* One window of Rolling.corr: the pairs of the trailing w positions in which
\* both values are not NaN; fewer than min_periods of them give NaN; a zero
\* denominator gives 0/0 = NaN.  The window's values are brought to common
\* denominators Dx, Dy, which cancel in cov / sqrt(vx * vy).
WindowCorr(x, y, i, w) ==
    LET J  == {j \in 1..i : j > i - w /\ IsFinite(x[j]) /\ IsFinite(y[j])}
        n  == Cardinality(J)
        Dx == ProdOver([j \in J |-> x[j].d], J)
        Dy == ProdOver([j \in J |-> y[j].d], J)
        X  == [j \in J |-> x[j].n * (Dx \div x[j].d)]
        Y  == [j \in J |-> y[j].n * (Dy \div y[j].d)]
        SX == SumOver(X, J)
        SY == SumOver(Y, J)
        vx == n * SumOver([j \in J |-> X[j] * X[j]], J) - SX * SX
        vy == n * SumOver([j \in J |-> Y[j] * Y[j]], J) - SY * SY
        cov == n * SumOver([j \in J |-> X[j] * Y[j]], J) - SX * SY
    IN  IF n < MinPeriods(w) \/ n = 0 THEN Undefined
        ELSE IF vx = 0 \/ vy = 0 THEN Undefined
        ELSE Corr(cov, vx, vy)

\* returns1.rolling(window).corr(returns2)
rolling_corr_of(x, y, w) ==
    [i \in 1..Len(x) |-> WindowCorr(PrepValues(x), PrepValues(y), i, w)]

\* compute_rolling_correlation(df, symbol1, symbol2, window)
compute_rolling_correlation(frame, symbol1, symbol2, w) ==
    rolling_corr_of(calculate_returns(frame, symbol1), calculate_returns(frame, symbol2), w)

NoReturns == [symbol |-> 0, series |-> <<>>]
NoRolling == [done |-> FALSE, series |-> <<>>]

PriceSeries(n) == [1..n -> Prices]

InitPipe ==
    /\ \E n \in 0..MaxLen : df \in PriceSeries(n) \X PriceSeries(n)
    /\ window \in 2..MaxWindow
    /\ returns = NoReturns
    /\ rolling = NoRolling

\* calculate_returns(df, symbol)
CalculateReturns ==
    /\ returns = NoReturns /\ rolling = NoRolling
    /\ \E symbol \in {1, 2} :
         returns' = [symbol |-> symbol, series |-> calculate_returns(df, symbol)]
    /\ UNCHANGED <<df, window, rolling>>

\* compute_rolling_correlation(df, symbol1, symbol2, window)
ComputeRollingCorrelation ==
    /\ returns = NoReturns /\ rolling = NoRolling
    /\ rolling' = [done |-> TRUE, series |-> compute_rolling_correlation(df, 1, 2, window)]
    /\ UNCHANGED <<df, window, returns>>

(***************************************************************************)
(* data_processing: detect_anomalies                                       *)
(*                                                                         *)
(* A series value is NaN or an integer (a correlation in fixed units).     *)
(***************************************************************************)
MaxSeriesLen == 3    \* length of the rolling-correlation series
MaxValue     == 1    \* values are -1..MaxValue
MaxThreshold == 2    \* thresholds are 0..MaxThreshold

Missing == [nan |-> TRUE, v |-> 0]
Val(v)  == [nan |-> FALSE, v |-> v]
SeriesValues == {Missing} \cup {Val(v) : v \in -1..MaxValue}

\* the values mean() and std() see: NaN is skipped
Defined(s) == {i \in 1..Len(s) : ~s[i].nan}
Count(s)   == Cardinality(Defined(s))
Sum(s)     == SumOver([i \in Defined(s) |-> s[i].v], Defined(s))
SumSq(s)   == SumOver([i \in Defined(s) |-> s[i].v * s[i].v], Defined(s))

\* n * (sum of squared deviations from the mean); std() is NaN below 2 values
ScaledVar(s) == Count(s) * SumSq(s) - Sum(s) * Sum(s)
StdIsNaN(s)  == Count(s) < 2
StdIsZero(s) == ~StdIsNaN(s) /\ ScaledVar(s) = 0

\* rolling_corr.iloc[-1] raises IndexError on an empty series
IlocLastRaises(s) == Len(s) = 0

\* abs((last - mean) / std) > threshold, squared and cleared of fractions:
\* with n values, sum S and V = ScaledVar,
\*   z^2 = (n*last - S)^2 * (n - 1) / (n * V)
\* A NaN anywhere in z compares False.
ZScoreExceeds(s, t) ==
    LET n    == Count(s)
        last == s[Len(s)]
        dev  == n * last.v - Sum(s)
    IN  /\ ~StdIsNaN(s)
        /\ ~last.nan
        /\ dev * dev * (n - 1) > t * t * n * ScaledVar(s)

\* detect_anomalies(rolling_corr, threshold)
detect_anomalies(s, t) ==
    IF StdIsZero(s) THEN "False"
    ELSE IF IlocLastRaises(s) THEN "IndexError"
    ELSE IF ZScoreExceeds(s, t) THEN "True" ELSE "False"

InitDetect ==
    /\ \E n \in 0..MaxSeriesLen : rolling_corr \in [1..n -> SeriesValues]
    /\ threshold \in 0..MaxThreshold
    /\ anomaly_flag = Unset

\* anomaly_flag = detect_anomalies(rolling_corr, threshold)
DetectAnomalies ==
    /\ anomaly_flag = Unset
    /\ anomaly_flag' = detect_anomalies(rolling_corr, threshold)
    /\ UNCHANGED <<rolling_corr, threshold>>

(***************************************************************************)
(* Specifications                                                          *)
(***************************************************************************)
IdleStore == InitStore

IdlePipe ==
    /\ df = <<<<>>, <<>>>>
    /\ window = 2
    /\ returns = NoReturns
    /\ rolling = NoRolling

IdleDetect ==
    /\ rolling_corr = <<>>
    /\ threshold = 0
    /\ anomaly_flag = Unset

Init == InitPoll /\ IdleStore /\ IdlePipe /\ IdleDetect

Next ==
    \/ GetQuote1 /\ UNCHANGED <<storeVars, pipeVars, detectVars>>
    \/ GetQuote2 /\ UNCHANGED <<storeVars, pipeVars, detectVars>>
    \/ AddNewData /\ UNCHANGED <<storeVars, pipeVars, detectVars>>
    \/ StoreData /\ UNCHANGED <<storeVars, pipeVars, detectVars>>
    \/ Evaluate /\ UNCHANGED <<storeVars, pipeVars, detectVars>>
    \/ Sleep /\ UNCHANGED <<storeVars, pipeVars, detectVars>>

Spec == Init /\ [][Next]_vars

\* The loop is the process's only thread: whenever a step is possible it is taken.
LiveSpec == Init /\ [][Next]_vars /\ WF_vars(Next)

CycleEnd == {"sleep", "done", "crashed"}

StoreNext ==
    \/ StoreRow /\ UNCHANGED <<pollVars, pipeVars, detectVars>>
    \/ LoadData /\ UNCHANGED <<pollVars, pipeVars, detectVars>>

PipelineNext ==
    \/ CalculateReturns /\ UNCHANGED <<pollVars, storeVars, detectVars>>
    \/ ComputeRollingCorrelation /\ UNCHANGED <<pollVars, storeVars, detectVars>>

DetectNext == DetectAnomalies /\ UNCHANGED <<pollVars, storeVars, pipeVars>>

PipelineInit == InitPoll /\ IdleStore /\ InitPipe /\ IdleDetect

PipelineSpec == PipelineInit /\ [][PipelineNext]_vars

DetectInit == InitPoll /\ IdleStore /\ IdlePipe /\ InitDetect

DetectSpec == DetectInit /\ [][DetectNext]_vars

StoreInit == InitPoll /\ InitStore /\ IdlePipe /\ IdleDetect

StoreSpec == StoreInit /\ [][StoreNext]_vars

(***************************************************************************)
(* Claims about the poll loop                                              *)
(***************************************************************************)

\* the step taken from the sleep that follows a failed fetch
C1_NextCycleStarts ==
    (err = "fetch" /\ pc = "sleep") => (pc' = "quote1" /\ store' = store)

\* C1: a cycle in which a get_quote call raised ends with the store holding
\* exactly the rows it held when the cycle began, with the exception caught
\* (the loop is at its sleep, neither left nor crashed), and the step after
\* that sleep starts the next cycle.
C1_FetchFailureSkipsCycle ==
    /\ [](err = "fetch" => (Rows(store) = startRows /\ pc = "sleep"))
    /\ [][C1_NextCycleStarts]_vars

C1_Witness == err = "fetch" /\ pc = "sleep" /\ startRows > 0

\* C2: every row the poll loop wrote to the store carries both prices.
C2_NoPartialSampleStored == Partial(store) = 0

\* the step taken after the except clause caught a failure
C3_LoopGoesOn ==
    err \in {"fetch", "store"} => (pc' = "quote1" /\ err' = "none")

\* C3: neither a fetch failure nor a store_data failure ends the loop: after
\* either one the loop has not exited or crashed, and its next step begins
\* the next cycle.
C3_FailuresDoNotTerminate ==
    /\ [](err \in {"fetch", "store"} => pc \notin {"done", "crashed"})
    /\ [][C3_LoopGoesOn]_vars

C3_Witness == err = "store" /\ pc = "sleep" /\ Rows(store) = startRows

\* C4: a cycle reports a verdict exactly when its fetches and its store_data
\* completed and the collected sample count is at least 100; before the end
\* of a cycle, and in every cycle with fewer samples, nothing is reported.
C4_VerdictIffReady ==
    /\ pc \in CycleEnd =>
         (reported <=> (err = "none" /\ Rows(data) >= 100))
    /\ pc \notin CycleEnd => ~reported

C4_Witness == reported /\ err = "none" /\ Rows(data) >= 100 /\ pc = "done"

\* C9: the loop is one-shot: it has exited only after reporting a verdict,
\* that verdict is the run's only one, no verdict is reported without the
\* loop exiting, and when failures are finitely many the loop does exit.
C9_OneShot ==
    /\ [](pc = "done" => (reported /\ verdicts = 1))
    /\ [](pc # "done" => verdicts = 0)
    /\ <>(pc = "done")

C9_Witness == pc = "done" /\ verdicts = 1 /\ faults > 0

\* C10: at every cycle boundary the in-memory buffer holds as many samples
\* as this run has inserted into the store.
C10_BufferAgreesWithStore ==
    pc \in ({"quote1"} \cup CycleEnd) => Rows(data) = Rows(store)

(***************************************************************************)
(* Claims about the store                                                  *)
(***************************************************************************)
TableTimes == [i \in 1..Len(table) |-> ParseIso(table[i].timestamp)]

\* C5: whatever the insertion order and for every limit >= 0, load_data
\* returns (it does not fail) exactly min(limit, count) rows, ascending by
\* timestamp, and they are the rows with the greatest timestamps: each one
\* is a distinct row of the table and no row left out is later than the
\* earliest row returned.  With an empty table the result is empty.
C5_LoadReturnsMostRecentAscending ==
    loaded.status # "unset" =>
        /\ loaded.status = "returned"
        /\ Len(loaded.rows) = Min(limit, Len(table))
        /\ \A i, j \in 1..Len(loaded.rows) :
             i < j => ~DtLess(loaded.rows[j].timestamp, loaded.rows[i].timestamp)
        /\ \E p \in [1..Len(loaded.rows) -> 1..Len(table)] :
             /\ \A i, j \in 1..Len(loaded.rows) : i # j => p[i] # p[j]
             /\ \A i \in 1..Len(loaded.rows) :
                  loaded.rows[i] = [table[p[i]] EXCEPT !.timestamp = TableTimes[p[i]]]
             /\ \A k \in 1..Len(table) :
                  (\A i \in 1..Len(loaded.rows) : p[i] # k) =>
                     \A i \in 1..Len(loaded.rows) :
                        ~DtLess(loaded.rows[i].timestamp, TableTimes[k])

(***************************************************************************)
(* Claims about the pipeline                                               *)
(* Position i of a pandas series is index i + 1 here.                      *)
(***************************************************************************)
\* the returns of the trailing window ending at index i
WindowIdx(i, w) == {j \in 1..i : j > i - w}
Ret(symbol) == calculate_returns(df, symbol)

\* the defined returns of the window are not all equal
NonzeroVariance(r, i, w) ==
    \E j, k \in WindowIdx(i, w) :
        /\ IsFinite(r[j]) /\ IsFinite(r[k])
        /\ r[j].n * r[k].d # r[k].n * r[j].d

AllFinite(r, i, w) == \A j \in WindowIdx(i, w) : IsFinite(r[j])

\* C6 as claimed: undefined at every position < window - 1, defined at every
\* position >= window - 1 whose trailing window has nonzero variance in both
\* return series.
C6_DefinedFromWindowMinusOne ==
    rolling.done =>
        \A i \in 1..Len(rolling.series) :
            /\ (i - 1 < window - 1) => ~IsDefined(rolling.series[i])
            /\ (i - 1 >= window - 1 /\ NonzeroVariance(Ret(1), i, window)
                                    /\ NonzeroVariance(Ret(2), i, window))
                  => IsDefined(rolling.series[i])

\* C6 as amended: undefined at every position < window (the return at
\* position 0 is always undefined), and defined at every position >= window
\* whose trailing window holds only finite returns, with nonzero variance,
\* in both return series.
C6_DefinedFromWindow ==
    rolling.done =>
        \A i \in 1..Len(rolling.series) :
            /\ (i - 1 < window) => ~IsDefined(rolling.series[i])
            /\ (i - 1 >= window /\ AllFinite(Ret(1), i, window)
                                /\ AllFinite(Ret(2), i, window)
                                /\ NonzeroVariance(Ret(1), i, window)
                                /\ NonzeroVariance(Ret(2), i, window))
                  => IsDefined(rolling.series[i])

C6_Witness ==
    /\ rolling.done
    /\ \E i \in 1..Len(rolling.series) :
          /\ i - 1 >= window
          /\ IsDefined(rolling.series[i])
          /\ ~IsDefined(rolling.series[window])

\* C7: where price[i-1] = 0, calculate_returns yields an undefined value at
\* position i (it neither raises nor yields an infinity).
C7_ZeroPriceGivesUndefined ==
    returns.symbol # 0 =>
        \A i \in 2..Len(returns.series) :
            df[returns.symbol][i - 1] = 0 => returns.series[i].k = "nan"

(***************************************************************************)
(* Claims about the detector                                               *)
(***************************************************************************)
\* C8: for every series (empty and all-undefined ones included) and every
\* threshold, detect_anomalies returns False, without raising, whenever the
\* series has fewer than 2 defined values or their standard deviation is 0.
C8_DegenerateSeriesNotAnomalous ==
    (anomaly_flag # Unset /\ (Count(rolling_corr) < 2 \/ ScaledVar(rolling_corr) = 0))
        => anomaly_flag = "False"
====
